---- MODULE Spec2Model ----
(***************************************************************************)
(* Plex watchlist sync plugin (src/main.ts): the feed run (checkFeed), the *)
(* vault synchronisation (updateWatchlist, updateWatchFile) and the        *)
(* triggers (onload, the hourly timer, the "Sync Now" button).             *)
(*                                                                         *)
(* Text is a sequence of one-character strings, so that the title          *)
(* sanitiser and the category comparison are computed character by         *)
(* character.  A path is a sequence of segments, each segment a text.      *)
(* Every await of the code is one step of a run; the synchronous code      *)
(* after an await belongs to the step that resumes it.                     *)
(***************************************************************************)
EXTENDS Integers, Sequences, FiniteSets, TLC

\* ------------------------------------------------------------------ bounds

\* Run slots: how many checkFeed call chains may be started in one behaviour.
MaxRuns == 2

\* Fetches one run may make before the model stops following it (a feed
\* whose next links cycle is followed without end by the code).
MaxFetches == 3

\* The same, in the specification that follows one run deep into a cycle.
DeepFetches == 101

\* Entries in one list handed to updateWatchlist by the call-it-twice harness.
MaxShows == 2

\* Characters in the title of the entry handed to updateWatchlist by the
\* one-entry harness.
MaxTitle == 2

\* ------------------------------------------------------------------- text

Empty == << >>

tShows == <<"s", "h", "o", "w", "s">>
tMovies == <<"m", "o", "v", "i", "e", "s">>
tMovie == <<"m", "o", "v", "i", "e">>
tWatchMd == <<"w", "a", "t", "c", "h", ".", "m", "d">>
tDotMd == <<".", "m", "d">>
tPlex == <<"p", "l", "e", "x">>

\* The character class of the replace() in updateWatchlist.
IllegalChars == {"/", "?", "<", ">", "\\", ":", "*", "|", "\""}

\* Variant: replace without the g flag, only the first match is replaced.
SanitizeTitleFirstOnly(title) ==
    [i \in 1..Len(title) |->
        IF title[i] \in IllegalChars
           /\ \A k \in 1..(i - 1) : title[k] \notin IllegalChars
        THEN "_" ELSE title[i]]

\* show.title.replace(/[\/\?<>\\:\*\|":]/g, "_")
SanitizeTitle(title) ==
    [i \in 1..Len(title) |-> IF title[i] \in IllegalChars THEN "_" ELSE title[i]]

\* String.prototype.toLowerCase on the letters the model's categories use.
LowerChar(c) ==
    CASE c = "M" -> "m"
      [] c = "O" -> "o"
      [] c = "V" -> "v"
      [] c = "I" -> "i"
      [] c = "E" -> "e"
      [] c = "S" -> "s"
      [] OTHER -> c

ToLowerCase(s) == [i \in 1..Len(s) |-> LowerChar(s[i])]

\* normalizePath on a path given as its "/"-separated segments: empty
\* segments (a leading, trailing or doubled "/") disappear.
NormalizePath(segs) == SelectSeq(segs, LAMBDA s : s # Empty)

\* `${folderPath}/shows`, `${folderPath}/movies`, `${folderPath}/watch.md`
ShowsFolderPath(folderPath) == NormalizePath(<<folderPath, tShows>>)
MoviesFolderPath(folderPath) == NormalizePath(<<folderPath, tMovies>>)
WatchFilePath(folderPath) == NormalizePath(<<folderPath, tWatchMd>>)

\* Variant: the category is compared as it is.
TargetFolderPathCaseSensitive(show, folderPath) ==
    IF show.category = tMovie
    THEN MoviesFolderPath(folderPath)
    ELSE ShowsFolderPath(folderPath)

\* show.category.toLowerCase() === "movie" ? moviesFolderPath : showsFolderPath
TargetFolderPath(show, folderPath) ==
    IF ToLowerCase(show.category) = tMovie
    THEN MoviesFolderPath(folderPath)
    ELSE ShowsFolderPath(folderPath)

\* normalizePath(`${targetFolderPath}/${sanitized title}.md`)
FilePath(show, folderPath) ==
    NormalizePath(TargetFolderPath(show, folderPath)
                  \o <<SanitizeTitle(show.title) \o tDotMd>>)

\* ------------------------------------------------------------ feed items

\* An <item> element: each sub-element is absent (<<>>) or present (<<text>>);
\* the thumbnail element carries its url attribute the same way.
Item(title, category, guid, pubDate, thumbnail) ==
    [title |-> title, link |-> <<"http://plex/" >>, pubDate |-> pubDate,
     description |-> << >>, category |-> category, thumbnail |-> thumbnail,
     keywords |-> << >>, rating |-> << >>, guid |-> <<guid>>]

itA == Item(<< <<"a", "/", "b">> >>, << <<"M", "o", "v", "i", "e">> >>, "g1",
            <<"Mon, 01 Jan 2024 10:00:00 GMT">>, << <<"http://img/1">> >>)
itB == Item(<< <<"a", "_", "b">> >>, << tMovie >>, "g2",
            <<"not a date">>, << << >> >>)
itC == Item(<< <<"a", "?", "b">> >>, << <<"s", "h", "o", "w">> >>, "g3",
            << >>, << >>)
itD == Item(<< >>, << >>, "g4", <<"Tue, 02 Jan 2024 10:00:00 GMT">>, << >>)

\* item.querySelector(x)?.textContent ?? ""  (text-valued and string-valued)
TextContent(el) == IF el = << >> THEN Empty ELSE el[1]
StringContent(el) == IF el = << >> THEN "" ELSE el[1]

\* thumbnail ? thumbnail.getAttribute("url") : ""
PosterOf(thumbnail) ==
    IF thumbnail = << >> THEN ""
    ELSE IF thumbnail[1] = << >> THEN "null" ELSE thumbnail[1][1]

\* new Date(pubDate).getFullYear(), as it is later interpolated into the note
YearOf(pubDate) ==
    CASE pubDate = "Mon, 01 Jan 2024 10:00:00 GMT" -> "2024"
      [] pubDate = "Tue, 02 Jan 2024 10:00:00 GMT" -> "2024"
      [] OTHER -> "NaN"

\* The record built for one item in checkFeed.
ParseItem(item) ==
    [title |-> TextContent(item.title),
     link |-> StringContent(item.link),
     pubDate |-> StringContent(item.pubDate),
     description |-> StringContent(item.description),
     category |-> TextContent(item.category),
     poster |-> PosterOf(item.thumbnail),
     keywords |-> StringContent(item.keywords),
     rating |-> StringContent(item.rating),
     guid |-> StringContent(item.guid),
     year |-> YearOf(StringContent(item.pubDate))]

ParseItems(items) == [i \in 1..Len(items) |-> ParseItem(items[i])]

\* The front-matter block written for one show, line by line.
NoteContent(show) ==
    << <<"---">>,
       <<"title: ", show.title>>,
       <<"link: ", show.link>>,
       <<"pubDate: ", show.pubDate>>,
       <<"description: ", show.description>>,
       <<"category: ", show.category>>,
       <<"poster: ", show.poster>>,
       <<"keywords: ", show.keywords>>,
       <<"rating: ", show.rating>>,
       <<"guid: ", show.guid>>,
       <<"year: ", show.year>>,
       <<"---">> >>

\* The fixed content of watch.md ("[fence]" stands for the three backquotes
\* of a code fence, which a TLA+ string cannot hold).
WatchFileContent ==
    << <<"---">>,
       <<"cssclasses: cards, cards-cover, cards-2-3, table-max">>,
       <<"---">>,
       <<"">>,
       <<"[fence]dataview">>,
       <<"table without id">>,
       <<"\t(\"![](\" + poster + \")\") as Poster,">>,
       <<"\tfile.link as Title,">>,
       <<"\tstring(year) as Year,">>,
       <<"\tpubDate as \"Date Added\"">>,
       <<"from \"plex/movies\"">>,
       <<"sort pubDate desc, title asc">>,
       <<"[fence]">> >>

\* vault.create(path, ""): the content a created file starts with.
EmptyContent == << >>

\* ------------------------------------------------------------------ feeds

\* A feed is the sequence of its pages; the URL of page p is the number p and
\* 0 is the empty URL.  A page: its <item> elements in document order, and
\* the href of its first link[rel="next"] (<<>> when it has no such link).
Page(items, next) == [items |-> items, next |-> next]

\* The href a page's next link leads to, 0 when it leads nowhere.
NextUrl(page) == IF page.next = << >> THEN 0 ELSE page.next[1]

\* Two pages in a chain; the titles of the two entries sanitise to one name.
feedChain == << Page(<<itA>>, <<2>>), Page(<<itB>>, << >>) >>

\* One page whose next link points back to itself.
feedCycle == << Page(<< >>, <<1>>) >>

\* One page whose next link has an empty href (the entries of feedChain are
\* gone from it).
feedSingle == << Page(<<itC>>, <<0>>) >>

\* The feeds whose next links end, and all feeds.
EndingFeeds == {feedChain, feedSingle}

Feeds == EndingFeeds \cup {feedCycle}

\* What DOMParser yields for a body that is no feed document (an error page,
\* malformed markup): a document with no <item> and no link[rel="next"].
NoFeedDocument == Page(<< >>, << >>)

\* ------------------------------------------------------------------ state

VARIABLES
    settings,   \* this.settings: feedUrl (0 is ""), folderPath (a text)
    phase,      \* "constructed", "loading" (onload awaits loadSettings),
                \* "loaded", "unloaded", "unloadedLoading" (unloaded while loading)
    timer,      \* TRUE while the interval set by startCheckingFeed is armed
    feed,       \* what the feed server serves now
    files,      \* the vault's files: path -> content
    folders,    \* the vault's folders: a set of paths
    started,    \* how many runs have been started so far
    runs,       \* per run slot: the position and locals of its checkFeed chain
    harness     \* the caller of SpecSync, which calls updateWatchlist twice

vars == <<settings, phase, timer, feed, files, folders, started, runs, harness>>

\* What a step of a run leaves alone, the vault apart.
env == <<settings, phase, timer, feed, started, harness>>

RunIds == 1..MaxRuns

\* const DEFAULT_SETTINGS
DEFAULT_SETTINGS == [feedUrl |-> 0, folderPath |-> Empty]

\* What loadSettings() may produce: the defaults (nothing saved yet), or the
\* settings saved by an earlier session.
SavedSettings == { DEFAULT_SETTINGS, [feedUrl |-> 1, folderPath |-> tPlex] }

\* A vault a user may start with: empty, or holding the notes of an earlier
\* sync (one of them for an entry that is in no feed any more).
OldNotePath == <<tPlex, tMovies, <<"o", "l", "d", ".", "m", "d">> >>
OldNoteContent == NoteContent(ParseItem(itD))

EmptyVault == [files |-> << >>, folders |-> {}]

InitialVaults ==
    { EmptyVault,
      [files |-> (OldNotePath :> OldNoteContent)
                 @@ (WatchFilePath(tPlex) :> <<<<"edited by hand">>>>),
       folders |-> {ShowsFolderPath(tPlex), MoviesFolderPath(tPlex)}] }

\* A run slot.  pc is the await the run is suspended at; url, folderPath,
\* shows, next, idx and foldersExist are locals of checkFeed and
\* updateWatchlist.  The other fields record what the run did: the URLs it
\* fetched, the URLs whose updateWatchlist call returned, the (path, content)
\* of every entry it parsed, the paths it wrote, the kind of the last
\* response, how the last updateWatchlist call ended, whether that call
\* changed the vault, and whether no error was caught so far.
IdleRun ==
    [pc |-> "idle", url |-> 0, folderPath |-> Empty,
     shows |-> << >>, next |-> << >>, idx |-> 0,
     foldersExist |-> <<FALSE, FALSE>>,
     fetched |-> << >>, synced |-> << >>, seen |-> << >>, written |-> {},
     resp |-> "none", sres |-> "none", wrote |-> FALSE, clean |-> TRUE]

HarnessOff == [stage |-> "off", shows |-> << >>, root |-> Empty, first |-> << >>]

\* The plugin object after construction, on one of the given vaults and with
\* the server serving one of the given feeds.
InitOn(vaults, feeds) ==
    /\ settings = DEFAULT_SETTINGS
    /\ phase = "constructed"
    /\ timer = FALSE
    /\ feed \in feeds
    /\ \E v \in vaults : files = v.files /\ folders = v.folders
    /\ started = 0
    /\ runs = [r \in RunIds |-> IdleRun]
    /\ harness = HarnessOff

\* A first installation: the vault holds nothing of the plugin yet.
Init == InitOn({EmptyVault}, EndingFeeds)

\* ------------------------------------------------------- vault primitives

\* adapter.exists(path) for a folder path
FolderExists(path) == path \in folders

\* vault.getAbstractFileByPath(path): a file handle, or null
GetAbstractFileByPath(path) == path \in DOMAIN files

\* Variant: the new content is added to what the file holds.
WriteFileAppend(path, content) ==
    (path :> (IF path \in DOMAIN files THEN files[path] \o content ELSE content))
    @@ files

\* Variant: the top folder of the file is emptied before the file is written.
WriteFileAfterClear(path, content) ==
    (path :> content)
    @@ [q \in {q \in DOMAIN files : Head(q) # Head(path)} |-> files[q]]

\* Variant: the write goes to every file of the folder of the file.
WriteFileFolderWide(path, content) ==
    [q \in DOMAIN files \cup {path} |->
        IF SubSeq(q, 1, Len(q) - 1) = SubSeq(path, 1, Len(path) - 1)
        THEN content ELSE files[q]]

\* vault.modify(file, content) / vault.create(path, content): the files after
WriteFile(path, content) == (path :> content) @@ files

\* ------------------------------------------------------- updateWatchlist

\* Entry of updateWatchlist(shows, folderPath): the two exists() checks start.
UpdateWatchlistEnter(rec, shows, folderPath) ==
    [rec EXCEPT !.pc = "exists", !.shows = shows, !.folderPath = folderPath,
                !.idx = 0, !.sres = "none", !.wrote = FALSE]

\* Variant: the try/catch is inside the loop, so a failing entry is skipped
\* and the call goes on.
UpdateWatchlistCatchPerEntry(rec) ==
    [rec EXCEPT !.pc = "lookup", !.idx = @ + 1, !.sres = "caught",
                !.clean = FALSE]

\* Variant: updateWatchlist has no catch; the error reaches the catch of
\* checkFeed, which ends the run.
UpdateWatchlistNoCatch(rec) ==
    [IdleRun EXCEPT !.pc = "done", !.fetched = rec.fetched,
                    !.synced = rec.synced, !.seen = rec.seen,
                    !.written = rec.written, !.resp = rec.resp,
                    !.clean = FALSE]

\* The catch of updateWatchlist: the error is logged and the call returns.
UpdateWatchlistCatch(rec) ==
    [rec EXCEPT !.pc = "ret", !.sres = "caught", !.clean = FALSE,
                !.synced = Append(@, rec.url)]

\* After the exists() checks: create what is missing, then the entry loop.
AfterFoldersExist(rec, fe) ==
    [rec EXCEPT !.foldersExist = fe,
                !.pc = IF ~fe[1] THEN "mkShows"
                       ELSE IF ~fe[2] THEN "mkMovies" ELSE "lookup",
                !.idx = 1]

\* After createFolder(showsFolderPath).
AfterShowsFolder(rec) ==
    [rec EXCEPT !.pc = IF ~rec.foldersExist[2] THEN "mkMovies" ELSE "lookup",
                !.wrote = TRUE]

\* After createFolder(moviesFolderPath).
AfterMoviesFolder(rec) == [rec EXCEPT !.pc = "lookup", !.wrote = TRUE]

\* The loop is at an entry while index < shows.length, else at updateWatchFile.
AtEntry(rec) == rec.idx <= Len(rec.shows)

\* The file the run is about to look up, create or modify.
TargetPath(rec) ==
    IF AtEntry(rec)
    THEN FilePath(rec.shows[rec.idx], rec.folderPath)
    ELSE WatchFilePath(rec.folderPath)

\* Variant: the index query names the root folder the call was given.
TargetContentRootQuery(rec) ==
    IF AtEntry(rec)
    THEN NoteContent(rec.shows[rec.idx])
    ELSE [WatchFileContent EXCEPT ![11] = <<"from ", rec.folderPath, "/movies">>]

\* What modify() writes into it.
TargetContent(rec) ==
    IF AtEntry(rec) THEN NoteContent(rec.shows[rec.idx]) ELSE WatchFileContent

\* if (!file) file = await create(path, "");  then modify
AfterLookup(rec, found) == [rec EXCEPT !.pc = IF found THEN "modify" ELSE "create"]

\* After create(path, "").
AfterCreate(rec) ==
    [rec EXCEPT !.pc = "modify", !.wrote = TRUE,
                !.written = @ \cup {TargetPath(rec)}]

\* After modify(file, content) of an entry's note: the next loop iteration.
AfterModifyNote(rec) ==
    [rec EXCEPT !.pc = "lookup", !.idx = @ + 1, !.wrote = TRUE,
                !.written = @ \cup {TargetPath(rec)}]

\* After modify(watchFile, watchFileContent): updateWatchlist returns.
AfterModifyWatch(rec) ==
    [rec EXCEPT !.pc = "ret", !.sres = "ok", !.wrote = TRUE,
                !.written = @ \cup {TargetPath(rec)},
                !.synced = Append(@, rec.url)]

\* ------------------------------------------------------------- checkFeed

\* checkFeed returns: its promise resolves and its locals are gone.
Finish(rec) ==
    [IdleRun EXCEPT !.pc = "done", !.fetched = rec.fetched,
                    !.synced = rec.synced, !.seen = rec.seen,
                    !.written = rec.written, !.resp = rec.resp,
                    !.clean = rec.clean]

\* Variant: the catch logs and throws again.
CheckFeedCatchRethrow(rec) == [rec EXCEPT !.pc = "rejected", !.clean = FALSE]

\* The catch of checkFeed: the error is logged and the call returns.
CheckFeedCatch(rec) == Finish([rec EXCEPT !.clean = FALSE])

\* Entry of checkFeed(url): reads this.settings, picks url || feedUrl, and
\* either starts the fetch or (no URL) returns at once.
CheckFeedEnter(rec, url, st) ==
    LET currentUrl == IF url # 0 THEN url ELSE st.feedUrl
    IN  IF currentUrl # 0
        THEN [rec EXCEPT !.pc = "fetch", !.url = currentUrl,
                         !.folderPath = st.folderPath]
        ELSE Finish(rec)

\* What the entries of a parsed page are to become in the vault.
Targets(shows, folderPath) ==
    [i \in 1..Len(shows) |-> [path |-> FilePath(shows[i], folderPath),
                              content |-> NoteContent(shows[i])]]

\* Variant: updateWatchlist is called without await, so the next link is
\* followed while the page is still being synchronised.
CheckFeedParsedNoAwait(rec, doc, kind) ==
    [rec EXCEPT !.next = doc.next,
                !.fetched = Append(@, rec.url),
                !.resp = kind,
                !.url = IF NextUrl(doc) # 0 THEN NextUrl(doc) ELSE @,
                !.pc = IF NextUrl(doc) # 0 THEN "fetch" ELSE "done"]

\* From the parsed document to the call of updateWatchlist(shows, folderPath).
CheckFeedParsed(rec, doc, kind) ==
    UpdateWatchlistEnter(
        [rec EXCEPT !.next = doc.next,
                    !.fetched = Append(@, rec.url),
                    !.seen = @ \o Targets(ParseItems(doc.items), rec.folderPath),
                    !.resp = kind],
        ParseItems(doc.items), rec.folderPath)

\* Variant: the next link is not followed.
CheckFeedAfterSyncNoNext(rec, st) == Finish(rec)

\* After "await this.updateWatchlist(...)": follow the next link, or finish.
CheckFeedAfterSync(rec, st) ==
    IF rec.next # << >> /\ rec.next[1] # 0
    THEN CheckFeedEnter(rec, rec.next[1], st)
    ELSE Finish(rec)

\* ---------------------------------------------------------------- actions

SetRun(r, rec) == runs' = [runs EXCEPT ![r] = rec]

InFlight(r) == runs[r].pc \notin {"idle", "done", "rejected"}

\* A call of checkFeed() with no argument takes the next run slot.
StartRun(st) ==
    /\ started < MaxRuns
    /\ started' = started + 1
    /\ SetRun(started + 1, CheckFeedEnter(IdleRun, 0, st))

\* The host loads the plugin: onload runs up to "await this.loadSettings()".
Load ==
    /\ phase = "constructed"
    /\ harness.stage = "off"
    /\ phase' = "loading"
    /\ UNCHANGED <<settings, timer, feed, files, folders, started, runs, harness>>

\* onload resumes with the loaded settings: the setting tab, the startup
\* sync, then the hourly timer.  It resumes also when the plugin has been
\* unloaded while the settings were being read.
Onload ==
    /\ phase \in {"loading", "unloadedLoading"}
    /\ \E data \in SavedSettings :
          /\ settings' = data
          /\ StartRun(data)
    /\ phase' = IF phase = "loading" THEN "loaded" ELSE "unloaded"
    /\ timer' = TRUE
    /\ UNCHANGED <<feed, files, folders, harness>>

\* The setInterval callback.
TimerTick ==
    /\ timer
    /\ StartRun(settings)
    /\ UNCHANGED <<settings, phase, timer, feed, files, folders, harness>>

\* The "Sync Now" button of the setting tab.
SyncNow ==
    /\ phase = "loaded"
    /\ StartRun(settings)
    /\ UNCHANGED <<settings, phase, timer, feed, files, folders, harness>>

\* onunload: clearInterval(this.interval).  The host may unload a plugin
\* whose onload has not returned yet; this.interval is not set then.
Onunload ==
    /\ phase \in {"loading", "loaded"}
    /\ phase' = IF phase = "loaded" THEN "unloaded" ELSE "unloadedLoading"
    /\ timer' = FALSE
    /\ UNCHANGED <<settings, feed, files, folders, started, runs, harness>>

\* The feed server starts serving another feed, between two runs.
FeedChange(feeds) ==
    /\ \A r \in RunIds : ~InFlight(r)
    /\ \E f \in feeds \ {feed} : feed' = f
    /\ UNCHANGED <<settings, phase, timer, files, folders, started, runs, harness>>

\* What the user may type into the two fields of the setting tab.
FeedUrls == {0, 1}

FolderPaths == {Empty, tPlex}

\* The onChange handler of the "RSS Feed URL" field (the tab is there once
\* onload has added it): this.settings.feedUrl = value, then saveSettings.
FeedUrlChange ==
    /\ phase = "loaded"
    /\ \E value \in FeedUrls \ {settings.feedUrl} :
          settings' = [settings EXCEPT !.feedUrl = value]
    /\ UNCHANGED <<phase, timer, feed, files, folders, started, runs, harness>>

\* The onChange handler of the "Folder Path" field.
FolderPathChange ==
    /\ phase = "loaded"
    /\ \E value \in FolderPaths \ {settings.folderPath} :
          settings' = [settings EXCEPT !.folderPath = value]
    /\ UNCHANGED <<phase, timer, feed, files, folders, started, runs, harness>>

\* fetch + text + parse of a page that is a feed document.
FetchPage(r, cap) ==
    LET rec == runs[r]
    IN  /\ rec.pc = "fetch"
        /\ Len(rec.fetched) < cap
        /\ rec.url \in 1..Len(feed)
        /\ SetRun(r, CheckFeedParsed(rec, feed[rec.url], "ok"))
        /\ UNCHANGED <<env, files, folders>>

\* The response is an error status or a body that is no feed document:
\* fetch resolves, text() resolves, parseFromString returns a document.
FetchNoFeed(r, cap) ==
    LET rec == runs[r]
    IN  /\ rec.pc = "fetch"
        /\ Len(rec.fetched) < cap
        /\ SetRun(r, CheckFeedParsed(rec, NoFeedDocument, "bad"))
        /\ UNCHANGED <<env, files, folders>>

\* fetch rejects (no connection, timeout at the transport).
FetchRejects(r, cap) ==
    LET rec == runs[r]
    IN  /\ rec.pc = "fetch"
        /\ Len(rec.fetched) < cap
        /\ SetRun(r, CheckFeedCatch([rec EXCEPT !.fetched = Append(@, rec.url),
                                                !.resp = "neterr"]))
        /\ UNCHANGED <<env, files, folders>>

\* Promise.all of the two adapter.exists().
FoldersExist(r) ==
    LET rec == runs[r]
    IN  /\ rec.pc = "exists"
        /\ SetRun(r, AfterFoldersExist(rec,
                        <<FolderExists(ShowsFolderPath(rec.folderPath)),
                          FolderExists(MoviesFolderPath(rec.folderPath))>>))
        /\ UNCHANGED <<env, files, folders>>

\* vault.createFolder(path) throws when the folder is there already.
CreateFolder(r, pcAt, path, after) ==
    /\ runs[r].pc = pcAt
    /\ IF path \in folders
       THEN /\ SetRun(r, UpdateWatchlistCatch(runs[r]))
            /\ UNCHANGED folders
       ELSE /\ folders' = folders \cup {path}
            /\ SetRun(r, after)
    /\ UNCHANGED <<env, files>>

CreateShowsFolder(r) ==
    CreateFolder(r, "mkShows", ShowsFolderPath(runs[r].folderPath),
                 AfterShowsFolder(runs[r]))

CreateMoviesFolder(r) ==
    CreateFolder(r, "mkMovies", MoviesFolderPath(runs[r].folderPath),
                 AfterMoviesFolder(runs[r]))

\* getAbstractFileByPath for the entry's note, in the loop.
GetNoteFile(r) ==
    LET rec == runs[r]
    IN  /\ rec.pc = "lookup" /\ AtEntry(rec)
        /\ SetRun(r, AfterLookup(rec, GetAbstractFileByPath(TargetPath(rec))))
        /\ UNCHANGED <<env, files, folders>>

\* getAbstractFileByPath for watch.md, in updateWatchFile.
GetWatchFile(r) ==
    LET rec == runs[r]
    IN  /\ rec.pc = "lookup" /\ ~AtEntry(rec)
        /\ SetRun(r, AfterLookup(rec, GetAbstractFileByPath(TargetPath(rec))))
        /\ UNCHANGED <<env, files, folders>>

\* vault.create(path, "") throws when the file is there already.
CreateFile(r) ==
    LET rec == runs[r]
    IN  /\ rec.pc = "create"
        /\ IF GetAbstractFileByPath(TargetPath(rec))
           THEN /\ SetRun(r, UpdateWatchlistCatch(rec))
                /\ UNCHANGED files
           ELSE /\ files' = WriteFile(TargetPath(rec), EmptyContent)
                /\ SetRun(r, AfterCreate(rec))
        /\ UNCHANGED <<env, folders>>

CreateNote(r) == AtEntry(runs[r]) /\ CreateFile(r)

CreateWatch(r) == ~AtEntry(runs[r]) /\ CreateFile(r)

\* vault.modify(file, content) for an entry's note.
ModifyNote(r) ==
    LET rec == runs[r]
    IN  /\ rec.pc = "modify" /\ AtEntry(rec)
        /\ files' = WriteFile(TargetPath(rec), TargetContent(rec))
        /\ SetRun(r, AfterModifyNote(rec))
        /\ UNCHANGED <<env, folders>>

\* vault.modify(watchFile, watchFileContent).
ModifyWatch(r) ==
    LET rec == runs[r]
    IN  /\ rec.pc = "modify" /\ ~AtEntry(rec)
        /\ files' = WriteFile(TargetPath(rec), TargetContent(rec))
        /\ SetRun(r, AfterModifyWatch(rec))
        /\ UNCHANGED <<env, folders>>

\* A folder creation, file creation or file write fails (disk, permissions):
\* the vault call rejects and the vault is as before.
StorageFails(r) ==
    LET rec == runs[r]
    IN  /\ rec.pc \in {"mkShows", "mkMovies", "create", "modify"}
        /\ SetRun(r, UpdateWatchlistCatch(rec))
        /\ UNCHANGED <<env, files, folders>>

\* checkFeed resumes after "await this.updateWatchlist(...)".
SyncReturns(r) ==
    LET rec == runs[r]
    IN  /\ rec.pc = "ret"
        /\ harness.stage = "off"
        /\ SetRun(r, CheckFeedAfterSync(rec, settings))
        /\ UNCHANGED <<env, files, folders>>

\* The steps of updateWatchlist and updateWatchFile.
SyncStep(r) ==
    \/ FoldersExist(r)
    \/ CreateShowsFolder(r)
    \/ CreateMoviesFolder(r)
    \/ GetNoteFile(r)
    \/ CreateNote(r)
    \/ ModifyNote(r)
    \/ GetWatchFile(r)
    \/ CreateWatch(r)
    \/ ModifyWatch(r)

\* ---------------------------------------------------------- specifications

\* The plugin: the triggers, overlapping runs, a feed that changes between
\* runs and whose next links end, and a network that may be down.  The vault
\* rejects only what its own rules reject (creating what exists).
Next ==
    \/ Load
    \/ Onload
    \/ TimerTick
    \/ SyncNow
    \/ FeedChange(EndingFeeds)
    \/ \E r \in RunIds :
          \/ FetchPage(r, MaxFetches)
          \/ FetchRejects(r, MaxFetches)
          \/ SyncStep(r)
          \/ SyncReturns(r)

Spec == Init /\ [][Next]_vars

\* The startup run alone, on any feed and any vault, with a network and a
\* disk where every call may fail.
NextFaults ==
    \/ Load
    \/ Onload
    \/ Onunload
    \/ FeedChange(Feeds)
    \/ FetchPage(1, MaxFetches)
    \/ FetchNoFeed(1, MaxFetches)
    \/ FetchRejects(1, MaxFetches)
    \/ SyncStep(1)
    \/ StorageFails(1)
    \/ SyncReturns(1)

SpecFaults == InitOn(InitialVaults, Feeds) /\ [][NextFaults]_vars

\* The startup run alone, followed deep into a feed whose next link cycles.
InitDeep == InitOn({EmptyVault}, {feedCycle})

NextDeep ==
    \/ Load
    \/ Onload
    \/ FetchPage(1, DeepFetches)
    \/ FoldersExist(1)
    \/ CreateShowsFolder(1)
    \/ CreateMoviesFolder(1)
    \/ GetWatchFile(1)
    \/ CreateWatch(1)
    \/ ModifyWatch(1)
    \/ SyncReturns(1)

SpecDeep == InitDeep /\ [][NextDeep]_vars

\* The plugin on the two-page feed while the user edits the settings: the
\* triggers, overlapping runs, a network and a disk that do not fail.
InitSettings == InitOn({EmptyVault}, {feedChain})

NextSettings ==
    \/ Load
    \/ Onload
    \/ TimerTick
    \/ SyncNow
    \/ FeedUrlChange
    \/ FolderPathChange
    \/ \E r \in RunIds :
          \/ FetchPage(r, MaxFetches)
          \/ SyncStep(r)
          \/ SyncReturns(r)

SpecSettings == InitSettings /\ [][NextSettings]_vars

\* The life cycle of the plugin object on the two-page feed: the host loads
\* and unloads it, the timer ticks, runs overlap; nothing fails.
NextTeardown ==
    \/ Load
    \/ Onload
    \/ Onunload
    \/ TimerTick
    \/ SyncNow
    \/ \E r \in RunIds :
          \/ FetchPage(r, MaxFetches)
          \/ SyncStep(r)
          \/ SyncReturns(r)

SpecTeardown == InitSettings /\ [][NextTeardown]_vars

\* updateWatchlist called twice in sequence by a caller that hands it the
\* same entries and the same root folder, on a disk that does not fail.
Roots == {Empty, tPlex}

ItemLists(n) == UNION { [1..k -> {itA, itB, itC, itD}] : k \in 0..n }

InitSync ==
    /\ settings = DEFAULT_SETTINGS
    /\ phase = "constructed"
    /\ timer = FALSE
    /\ feed = feedSingle
    /\ \E v \in InitialVaults : files = v.files /\ folders = v.folders
    /\ started = 0
    /\ runs = [r \in RunIds |-> IdleRun]
    /\ \E items \in ItemLists(MaxShows), root \in Roots :
          harness = [stage |-> "ready", shows |-> ParseItems(items),
                     root |-> root, first |-> << >>]

\* The first call.
CallSync ==
    /\ harness.stage = "ready"
    /\ harness' = [harness EXCEPT !.stage = "first"]
    /\ SetRun(1, UpdateWatchlistEnter(IdleRun, harness.shows, harness.root))
    /\ UNCHANGED <<settings, phase, timer, feed, started, files, folders>>

\* The first call has returned: the caller notes the vault and calls again.
CallSyncAgain ==
    /\ harness.stage = "first"
    /\ runs[1].pc = "ret"
    /\ harness' = [harness EXCEPT !.stage = "second",
                                  !.first = <<files, folders>>]
    /\ SetRun(1, UpdateWatchlistEnter([IdleRun EXCEPT !.clean = runs[1].clean],
                                      harness.shows, harness.root))
    /\ UNCHANGED <<settings, phase, timer, feed, started, files, folders>>

\* The second call has returned.
CallsDone ==
    /\ harness.stage = "second"
    /\ runs[1].pc = "ret"
    /\ harness' = [harness EXCEPT !.stage = "end"]
    /\ SetRun(1, Finish(runs[1]))
    /\ UNCHANGED <<settings, phase, timer, feed, started, files, folders>>

NextSync ==
    \/ CallSync
    \/ CallSyncAgain
    \/ CallsDone
    \/ SyncStep(1)

SpecSync == InitSync /\ [][NextSync]_vars

\* updateWatchlist called (twice, as above) with one entry, whose title and
\* category are any of a set of texts, on an empty vault.
TitleChars == IllegalChars \cup {"a", "_"}

Titles(n) == UNION { [1..k -> TitleChars] : k \in 0..n }

Categories ==
    { Empty, tMovie, tMovies,
      <<"M", "o", "v", "i", "e">>, <<"M", "O", "V", "I", "E">>,
      <<"m", "o", "v", "i">>, <<" ", "m", "o", "v", "i", "e">>,
      <<"s", "h", "o", "w">>, <<"S", "i", "t", "c", "o", "m">> }

InitEntry ==
    /\ settings = DEFAULT_SETTINGS
    /\ phase = "constructed"
    /\ timer = FALSE
    /\ feed = feedSingle
    /\ files = EmptyVault.files
    /\ folders = EmptyVault.folders
    /\ started = 0
    /\ runs = [r \in RunIds |-> IdleRun]
    /\ \E title \in Titles(MaxTitle), category \in Categories, root \in Roots :
          harness = [stage |-> "ready",
                     shows |-> ParseItems(<<Item(<<title>>, <<category>>, "g1",
                                                 << >>, << >>)>>),
                     root |-> root, first |-> << >>]

SpecEntry == InitEntry /\ [][NextSync]_vars

\* ------------------------------------------------------------------ claims

\* C1: at any time at most one sync run is in flight.
C1_SingleFlight == Cardinality({r \in RunIds : InFlight(r)}) <= 1

IsPrefix(a, b) == Len(a) <= Len(b) /\ a = SubSeq(b, 1, Len(a))

\* C2: within one run the synchronisation of page k has finished before the
\* fetch of page k+1 begins, and the pages are fetched in feed order: while a
\* fetch is pending every page fetched so far has been synchronised, the
\* synchronised pages are always the fetched ones in the same order, at most
\* the last one missing, and each fetched page is the one the next link of
\* the page before it names.
C2_PerPageFlush ==
    \A r \in RunIds :
        LET rec == runs[r]
        IN  /\ IsPrefix(rec.synced, rec.fetched)
            /\ Len(rec.fetched) <= Len(rec.synced) + 1
            /\ rec.pc = "fetch" => rec.synced = rec.fetched
            /\ InFlight(r) =>
                  /\ \A k \in 1..(Len(rec.fetched) - 1) :
                        rec.fetched[k] \in 1..Len(feed)
                        /\ rec.fetched[k + 1] = NextUrl(feed[rec.fetched[k]])
                  /\ (rec.pc = "fetch" /\ rec.fetched # << >>) =>
                        rec.url = NextUrl(feed[rec.fetched[Len(rec.fetched)]])

\* C2's case: the fetch of page 2 is pending and page 1's notes are written.
C2_Witness ==
    \E r \in RunIds :
        /\ runs[r].pc = "fetch"
        /\ runs[r].fetched = <<1>>
        /\ runs[r].url = 2
        /\ runs[r].written # {}

\* C3: when the fetch of page k >= 2 fails, the vault is left as it is (the
\* notes of pages 1..k-1 stay, content unchanged), the run ends there with
\* its promise resolved, and a run that has ended fetches nothing more.
C3_FetchFailureContained ==
    [][\A r \in RunIds :
          /\ (runs[r].pc = "fetch" /\ Len(runs[r].fetched) >= 1
              /\ runs'[r].resp = "neterr")
             => /\ files' = files
                /\ folders' = folders
                /\ runs'[r].written \subseteq DOMAIN files'
                /\ runs'[r].pc = "done"
                /\ runs'[r].fetched = Append(runs[r].fetched, runs[r].url)
          /\ runs[r].pc = "done" => runs'[r] = runs[r]]_vars

\* C3's case: page 1 was synchronised, the fetch of page 2 failed.
C3_Witness ==
    \E r \in RunIds :
        /\ runs[r].pc = "done"
        /\ runs[r].resp = "neterr"
        /\ runs[r].fetched = <<1, 2>>
        /\ runs[r].synced = <<1>>
        /\ runs[r].written # {}

\* The pages reached from url by following next links, at most fuel of them.
RECURSIVE ChainFrom(_, _, _)
ChainFrom(f, url, fuel) ==
    IF fuel = 0 \/ url \notin 1..Len(f)
    THEN << >>
    ELSE <<url>> \o ChainFrom(f, NextUrl(f[url]), fuel - 1)

Chain(f, url) == ChainFrom(f, url, Len(f))

\* The next links from url end at a page without one.
FiniteChain(f, url) == Len(ChainFrom(f, url, Len(f) + 1)) <= Len(f)

\* C4: on a feed whose pages form a finite chain, a run never fetches
\* anything but the chain's pages in chain order, and a run all of whose
\* fetches were answered with a feed page has, when it ends, fetched each
\* page of the chain once, in order, and synchronised them in that order.
C4_PaginationTermination ==
    [][\A r \in RunIds :
          FiniteChain(feed, settings.feedUrl) =>
             /\ InFlight(r) =>
                   IsPrefix(runs[r].fetched, Chain(feed, settings.feedUrl))
             /\ (runs[r].pc # "done" /\ runs'[r].pc = "done"
                 /\ runs'[r].resp = "ok")
                => /\ runs'[r].fetched = Chain(feed, settings.feedUrl)
                   /\ runs'[r].synced = Chain(feed, settings.feedUrl)]_vars

\* C4's case: a run over the two-page chain has ended.
C4_Witness ==
    \E r \in RunIds :
        /\ feed = feedChain
        /\ runs[r].pc = "done"
        /\ runs[r].resp = "ok"
        /\ runs[r].fetched = <<1, 2>>
        /\ runs[r].synced = <<1, 2>>

\* C5: a run fetches at most 100 pages.
C5_PageCap == \A r \in RunIds : Len(runs[r].fetched) <= 100

\* C6: after a response that is an error status or no feed document, the
\* run performs no vault operation for that page.
C6_BadPageAborts == \A r \in RunIds : runs[r].resp = "bad" => ~runs[r].wrote

\* C7: when updateWatchlist has been called twice in sequence with the same
\* entries and root folder and nothing failed, the vault after the second
\* call is the vault after the first.
C7_Idempotent ==
    (harness.stage = "end" /\ runs[1].clean) => <<files, folders>> = harness.first

\* C7's case: both calls are over, for two entries that share one note path.
C7_Witness ==
    /\ harness.stage = "end"
    /\ runs[1].clean
    /\ Len(harness.shows) = 2
    /\ FilePath(harness.shows[1], harness.root) = FilePath(harness.shows[2], harness.root)
    /\ NoteContent(harness.shows[1]) # NoteContent(harness.shows[2])

\* C8: no step removes a file or a folder from the vault.
C8_AppendOnly ==
    [][DOMAIN files \subseteq DOMAIN files' /\ folders \subseteq folders']_vars

\* C8's case: a run over the changed feed has ended and the note of an entry
\* that is no longer in the feed is still there.
C8_Witness ==
    \E r \in RunIds :
        /\ feed = feedSingle
        /\ runs[r].pc = "done"
        /\ runs[r].clean
        /\ Len(runs[r].seen) = 1
        /\ runs[r].seen[1].path = FilePath(ParseItem(itC), tPlex)
        /\ FilePath(ParseItem(itB), tPlex) \in DOMAIN files
        /\ files[FilePath(ParseItem(itB), tPlex)] = NoteContent(ParseItem(itB))

\* The last entry of a run's entries that has the path of entry i.
LastWithPath(seen, i) ==
    CHOOSE j \in i..Len(seen) :
        /\ seen[j].path = seen[i].path
        /\ \A k \in (j + 1)..Len(seen) : seen[k].path # seen[i].path

\* C9: when a run ends without failure, the note at each of its entries'
\* paths holds the rendering of the last of its entries with that path.
C9_LastWriteWins ==
    [][\A r \in RunIds :
          (runs[r].pc # "done" /\ runs'[r].pc = "done" /\ runs'[r].clean)
          => \A i \in 1..Len(runs'[r].seen) :
                LET seen == runs'[r].seen
                IN  /\ seen[i].path \in DOMAIN files'
                    /\ files'[seen[i].path] = seen[LastWithPath(seen, i)].content]_vars

\* C10: a failing folder creation, file creation or file write is caught in
\* updateWatchlist: the call returns to its caller then and there (the
\* remaining entries and the index are skipped) and the vault keeps what was
\* written before.
C10_StorageFailureContained ==
    [][\A r \in RunIds :
          (runs[r].pc \in {"mkShows", "mkMovies", "create", "modify"}
           /\ runs'[r].sres = "caught")
          => /\ runs'[r].pc = "ret"
             /\ files' = files
             /\ folders' = folders
             /\ runs'[r].written = runs[r].written
             /\ runs[r].written \subseteq DOMAIN files']_vars

\* C10's case: a write failed at an entry after a note had been written.
C10_Witness ==
    \E r \in RunIds :
        /\ runs[r].pc = "ret"
        /\ runs[r].sres = "caught"
        /\ AtEntry(runs[r])
        /\ runs[r].written # {}

\* The folder a run is about to create.
FolderToCreate(rec) ==
    IF rec.pc = "mkShows"
    THEN ShowsFolderPath(rec.folderPath)
    ELSE MoviesFolderPath(rec.folderPath)

\* C11: when a call saw a target folder missing and, by the time it creates
\* the folder, another call has created it, the failed creation is a no-op:
\* the call goes on to the other folder or to its entries, and does not
\* return with its notes and the index unwritten.
C11_FolderRaceTolerated ==
    [][\A r \in RunIds :
          (/\ runs[r].pc \in {"mkShows", "mkMovies"}
           /\ FolderToCreate(runs[r]) \in folders
           /\ runs'[r] # runs[r])
          => runs'[r].pc \in {"mkMovies", "lookup"}]_vars


\* C12: a trigger (startup, timer, manual) that finds the feed URL empty or
\* the root folder path empty starts no fetch and changes nothing in the
\* vault: the run it starts ends at once.
C12_NoOpUntilConfigured ==
    [][\A r \in RunIds :
          (/\ runs[r].pc = "idle"
           /\ runs'[r].pc # "idle"
           /\ (settings'.feedUrl = 0 \/ settings'.folderPath = Empty))
          => /\ runs'[r].pc = "done"
             /\ runs'[r].fetched = << >>
             /\ files' = files
             /\ folders' = folders]_vars


\* C17: the root folder a run writes under is the one configured when the
\* run started: when the run goes on from one page to the next, the folder
\* path it uses for the next page is the one it used for the page before,
\* whatever the settings have become meanwhile.
C17_ConfigSnapshot ==
    [][\A r \in RunIds :
          (runs[r].pc = "ret" /\ runs'[r].pc = "fetch")
          => runs'[r].folderPath = runs[r].folderPath]_vars


\* C13: when a call of updateWatchlist returns with every write succeeded,
\* root/watch.md exists and holds the fixed template, whatever it held
\* before and whatever the entries; and at the step that writes the index
\* every entry of the call has its note in the vault, holding the rendering
\* of an entry of the call with that path.
C13_IndexRegenerated ==
    [][LET rec == runs[1]
           w == WatchFilePath(rec.folderPath)
       IN  /\ (rec.pc = "modify" /\ runs'[1].pc = "ret" /\ runs'[1].sres = "ok")
              => /\ w \in DOMAIN files'
                 /\ files'[w] = WatchFileContent
           /\ (/\ rec.pc \in {"create", "modify"}
               /\ w \in DOMAIN files'
               /\ (w \notin DOMAIN files \/ files'[w] # files[w]))
              => \A i \in 1..Len(rec.shows) :
                    LET q == FilePath(rec.shows[i], rec.folderPath)
                    IN  /\ q \in DOMAIN files
                        /\ \E j \in 1..Len(rec.shows) :
                              /\ FilePath(rec.shows[j], rec.folderPath) = q
                              /\ files[q] = NoteContent(rec.shows[j])]_vars

\* C13's case: the first call has returned, for two entries, in a vault whose
\* watch.md had been edited by hand.
C13_Witness ==
    /\ harness.stage = "first"
    /\ runs[1].pc = "ret"
    /\ runs[1].sres = "ok"
    /\ Len(harness.shows) = 2
    /\ harness.root = tPlex
    /\ OldNotePath \in DOMAIN files
    /\ files[WatchFilePath(tPlex)] = WatchFileContent


\* C14: once onunload has run the hourly timer is not armed, so that no tick
\* of it starts a run any more.
C14_TimerCancelled == phase \in {"unloaded", "unloadedLoading"} => ~timer


\* The letters that differ only in case.
CasePairs ==
    { <<"M", "m">>, <<"O", "o">>, <<"V", "v">>, <<"I", "i">>, <<"E", "e">>,
      <<"S", "s">> }

SameLetter(c, d) == c = d \/ <<c, d>> \in CasePairs \/ <<d, c>> \in CasePairs

EqualsIgnoreCase(a, b) ==
    Len(a) = Len(b) /\ \A i \in 1..Len(a) : SameLetter(a[i], b[i])

\* The notes of the vault the one-entry harness works on: every file but the
\* index.
Notes == {p \in DOMAIN files : p # WatchFilePath(harness.root)}

FolderOf(p) == SubSeq(p, 1, Len(p) - 1)

\* C15: the note of an entry is under root/movies exactly when its category
\* equals "movie" case-insensitively, and under root/shows for every other
\* category, the empty one included; once the call has returned the note is
\* there.
C15_ClassificationRouting ==
    LET show == harness.shows[1]
    IN  harness.stage # "off" =>
           /\ \A p \in Notes :
                 FolderOf(p) = IF EqualsIgnoreCase(show.category, tMovie)
                               THEN NormalizePath(<<harness.root, tMovies>>)
                               ELSE NormalizePath(<<harness.root, tShows>>)
           /\ harness.stage \in {"second", "end"} => Notes # {}

\* C15's case: the entry's category is "MOVIE" and its note is in root/movies.
C15_Witness ==
    /\ harness.stage = "end"
    /\ harness.shows[1].category = <<"M", "O", "V", "I", "E">>
    /\ \E p \in Notes : FolderOf(p) = MoviesFolderPath(harness.root)

\* The characters a file name must not hold.
Forbidden == {"/", "\\", "?", "<", ">", ":", "*", "|", "\""}

\* C16: the file name of an entry's note is its title with every forbidden
\* character replaced by "_" and every other character kept, followed by
\* ".md"; it holds no forbidden character; and sanitising twice gives what
\* sanitising once gives.
C16_Sanitization ==
    LET title == harness.shows[1].title
    IN  harness.stage # "off" =>
           /\ \A p \in Notes :
                 LET name == p[Len(p)]
                 IN  /\ Len(name) = Len(title) + 3
                     /\ \A i \in 1..Len(name) : name[i] \notin Forbidden
                     /\ \A i \in 1..Len(title) :
                           name[i] = IF title[i] \in Forbidden THEN "_" ELSE title[i]
                     /\ SubSeq(name, Len(title) + 1, Len(name)) = <<".", "m", "d">>
           /\ harness.stage \in {"second", "end"} => Notes # {}
           /\ SanitizeTitle(SanitizeTitle(title)) = SanitizeTitle(title)

\* C16's case: a title of two forbidden characters, its note written.
C16_Witness ==
    /\ harness.stage = "end"
    /\ harness.shows[1].title = <<":", "\"">>
    /\ \E p \in Notes : p[Len(p)] = <<"_", "_", ".", "m", "d">>


\* C18: in every state, every file in a movies or shows folder holds the
\* complete front-matter block of some entry.
C18_NotesComplete ==
    \A p \in DOMAIN files :
        (Len(p) >= 2 /\ p[Len(p) - 1] \in {tMovies, tShows})
        => \E item \in {itA, itB, itC, itD} : files[p] = NoteContent(ParseItem(item))


\* The paths a call of updateWatchlist(shows, root) may write.
Touched(shows, root) ==
    {FilePath(shows[i], root) : i \in 1..Len(shows)} \cup {WatchFilePath(root)}

\* C19: a step of updateWatchlist(shows, root) changes no file but the notes
\* of the given entries and root/watch.md, creates no file but those, and
\* creates no folder but root/shows and root/movies; every other file keeps
\* its existence and its content, every folder stays.
C19_Frame ==
    [][LET touched == Touched(harness.shows, harness.root)
       IN  /\ \A p \in DOMAIN files \ touched :
                 p \in DOMAIN files' /\ files'[p] = files[p]
           /\ (DOMAIN files' \ DOMAIN files) \subseteq touched
           /\ (folders' \ folders) \subseteq
                 {ShowsFolderPath(harness.root), MoviesFolderPath(harness.root)}
           /\ folders \subseteq folders']_vars

\* C19's case: both calls are over; a movie entry's note was written under
\* plex/movies, next to a note of an earlier sync, which is as it was.
C19_Witness ==
    /\ harness.stage = "end"
    /\ harness.root = tPlex
    /\ OldNotePath \in DOMAIN files
    /\ files[OldNotePath] = OldNoteContent
    /\ \E i \in 1..Len(harness.shows) :
          /\ FolderOf(FilePath(harness.shows[i], tPlex)) = MoviesFolderPath(tPlex)
          /\ FilePath(harness.shows[i], tPlex) \in DOMAIN files
          /\ files[FilePath(harness.shows[i], tPlex)] # EmptyContent


\* C20: a storage failure while a page is synchronised does not end the run.
\* When updateWatchlist has returned after catching an error and the page
\* has a next link, the run goes on to fetch that page; and a run whose last
\* fetch was answered with a feed page ends only at a page without next link.
C20_StorageFailureRunGoesOn ==
    [][\A r \in RunIds :
          /\ (/\ runs[r].pc = "ret"
              /\ runs[r].sres = "caught"
              /\ NextUrl(runs[r]) # 0
              /\ runs'[r] # runs[r])
             => /\ runs'[r].pc = "fetch"
                /\ runs'[r].url = NextUrl(runs[r])
          /\ (runs[r].pc # "done" /\ runs'[r].pc = "done" /\ runs'[r].resp = "ok")
             => NextUrl(runs[r]) = 0]_vars

\* C20's case: a write failed while page 1 was synchronised, and page 2 has
\* been fetched and synchronised all the same.
C20_Witness ==
    /\ runs[1].pc = "ret"
    /\ runs[1].url = 2
    /\ runs[1].sres = "ok"
    /\ ~runs[1].clean
    /\ runs[1].fetched = <<1, 2>>
    /\ runs[1].synced = <<1, 2>>
    /\ FilePath(ParseItem(itB), runs[1].folderPath) \in DOMAIN files
    /\ files[FilePath(ParseItem(itB), runs[1].folderPath)] = NoteContent(ParseItem(itB))

====
